---- MODULE Spec2Model ----
(***************************************************************************)
(* Model of the integrated auto-responder of the Tmux Orchestrator:        *)
(* src/integrated_auto_responder.py (IntegratedAutoResponder) together     *)
(* with the preset catalogue of src/permission_presets.py.                 *)
(*                                                                         *)
(* Captured pane content is a sequence of one-character strings.  The      *)
(* catalogue's regular expressions are represented by literal patterns,    *)
(* and re.search(pattern, content, re.IGNORECASE) by a case-insensitive    *)
(* substring search.                                                       *)
(***************************************************************************)
EXTENDS Integers, Sequences, FiniteSets, TLC

(* ---------------------------------------------------------------- bounds *)
MaxLen == 3          \* longest captured text drawn in SpecClassify
MaxThreads == 2      \* start_for_session calls that create a monitor thread
MaxPrompts == 2      \* captures that show a non-empty pane to the monitor
MaxCommands == 1     \* stop / enable / disable / category commands issued
MaxSendFailures == 1 \* keystroke sends that the adapter rejects
MaxResolutions == 3  \* get_preset calls that return a policy

(* ------------------------------------------------------- text and regex *)
Alphabet == {"r", "m", "s", "y", "Y", "n"}

\* str.lower() on one character, the effect of re.IGNORECASE on a literal
Lower(ch) == IF ch = "Y" THEN "y" ELSE ch

MatchAtSensitive(pattern, content, i) ==
    \A j \in 1..Len(pattern) : content[i + j - 1] = pattern[j]

MatchAt(pattern, content, i) ==
    \A j \in 1..Len(pattern) : Lower(content[i + j - 1]) = Lower(pattern[j])

\* re.search(pattern, content, re.IGNORECASE [| re.MULTILINE]) is not None
re_search(pattern, content) ==
    \E i \in 1..(Len(content) - Len(pattern) + 1) : MatchAt(pattern, content, i)

(* ------------------------------------------------------ preset catalogue *)
\* permission_presets.GRANULAR_CONTROLS, in declaration (dict) order
GRANULAR_CONTROLS ==
    << [name |-> "file_operations",
        patterns |-> << <<"y", "n">>, <<"y">> >>,
        response |-> "1",
        enabled_in |-> {"pm_orchestrator", "safe_development", "autonomous_agent"}],
       [name |-> "persistent_choices",
        patterns |-> << <<"n">>, <<"y">> >>,
        response |-> "2",
        enabled_in |-> {"autonomous_agent"}] >>

CategoryNames == {GRANULAR_CONTROLS[i].name : i \in 1..Len(GRANULAR_CONTROLS)}

\* permission_presets.SAFETY_CONTROLS
SAFETY_CONTROLS ==
    [dangerous_patterns |-> << <<"r", "m">> >>,
     require_manual_approval |-> << <<"s">> >>]

\* permission_presets.PRESET_INFO: the timing constants, in hundredths of a
\* second
PRESET_INFO ==
    [pm_orchestrator  |-> [check_interval |-> 200, response_delay |-> 50],
     safe_development |-> [check_interval |-> 200, response_delay |-> 50],
     conservative     |-> [check_interval |-> 300, response_delay |-> 100],
     autonomous_agent |-> [check_interval |-> 150, response_delay |-> 30]]

(* -------------------------------------------------------- classification *)
None == [category |-> "None", response |-> "", pattern_matched |-> << >>]

\* the scan with the loop over dangerous_patterns left out
is_dangerous_operation_manual_only(content, cfg) ==
    IF ~cfg.skip_dangerous_operations
    THEN FALSE
    ELSE \E k \in 1..Len(cfg.safety_controls.require_manual_approval) :
             re_search(cfg.safety_controls.require_manual_approval[k], content)

is_dangerous_operation(content, cfg) ==
    IF ~cfg.skip_dangerous_operations
    THEN FALSE
    ELSE \/ \E k \in 1..Len(cfg.safety_controls.dangerous_patterns) :
               re_search(cfg.safety_controls.dangerous_patterns[k], content)
         \/ \E k \in 1..Len(cfg.safety_controls.require_manual_approval) :
               re_search(cfg.safety_controls.require_manual_approval[k], content)

\* the pattern loop keeping the last match instead of returning the first
RECURSIVE last_pattern(_, _, _)
last_pattern(patterns, content, k) ==
    IF k > Len(patterns) THEN 0
    ELSE LET later == last_pattern(patterns, content, k + 1)
         IN  IF later # 0 THEN later
             ELSE IF re_search(patterns[k], content) THEN k ELSE 0

\* index of the first pattern of the list that matches, 0 when none does
\* (the loop of lines 193-194)
RECURSIVE first_pattern(_, _, _)
first_pattern(patterns, content, k) ==
    IF k > Len(patterns) THEN 0
    ELSE IF re_search(patterns[k], content) THEN k
    ELSE first_pattern(patterns, content, k + 1)

\* the category loop without the test of the enabled flag (lines 187-188)
RECURSIVE match_categories_any(_, _, _)
match_categories_any(content, cfg, i) ==
    IF i > Len(GRANULAR_CONTROLS) THEN None
    ELSE LET c == GRANULAR_CONTROLS[i]
             k == first_pattern(c.patterns, content, 1)
         IN  IF k # 0
             THEN [category |-> c.name, response |-> c.response,
                   pattern_matched |-> c.patterns[k]]
             ELSE match_categories_any(content, cfg, i + 1)

\* the loop over granular_controls.items() from category i on (lines 185-202)
RECURSIVE match_categories(_, _, _)
match_categories(content, cfg, i) ==
    IF i > Len(GRANULAR_CONTROLS) THEN None
    ELSE LET c == GRANULAR_CONTROLS[i]
             k == first_pattern(c.patterns, content, 1)
         IN  IF \/ c.name \notin DOMAIN cfg.granular_controls
                \/ ~cfg.granular_controls[c.name]
             THEN match_categories(content, cfg, i + 1)
             ELSE IF k # 0
                  THEN [category |-> c.name, response |-> c.response,
                        pattern_matched |-> c.patterns[k]]
                  ELSE match_categories(content, cfg, i + 1)

\* check_for_confirmation_prompt on an already captured content:
\* the value returned and whether a SKIPPED record is logged
check_for_confirmation_prompt(content, cfg) ==
    IF content = << >>
    THEN [prompt_info |-> None, skipped |-> FALSE]
    ELSE IF is_dangerous_operation(content, cfg)
    THEN [prompt_info |-> None, skipped |-> TRUE]
    ELSE [prompt_info |-> match_categories(content, cfg, 1), skipped |-> FALSE]

(* ------------------------------------------------------- policy sources *)
\* the presets a responder is constructed with when its monitor is exercised
PresetNames == {"pm_orchestrator", "autonomous_agent"}

\* generate_preset_config raises ValueError (lines 136-138)
raises_ValueError(preset_name) == preset_name \notin DOMAIN PRESET_INFO

\* generate_preset_config enabling every category whatever the preset
generate_preset_config_all_enabled(preset_name) ==
    [enabled |-> TRUE,
     check_interval |-> PRESET_INFO[preset_name].check_interval,
     response_delay |-> PRESET_INFO[preset_name].response_delay,
     log_responses |-> TRUE,
     skip_dangerous_operations |-> TRUE,
     granular_controls |-> [c \in CategoryNames |-> TRUE],
     safety_controls |-> SAFETY_CONTROLS]

\* permission_presets.generate_preset_config for a built-in preset name
generate_preset_config(preset_name) ==
    [enabled |-> TRUE,
     check_interval |-> PRESET_INFO[preset_name].check_interval,
     response_delay |-> PRESET_INFO[preset_name].response_delay,
     log_responses |-> TRUE,
     skip_dangerous_operations |-> TRUE,
     granular_controls |->
        [c \in CategoryNames |->
            \E i \in 1..Len(GRANULAR_CONTROLS) :
                /\ GRANULAR_CONTROLS[i].name = c
                /\ preset_name \in GRANULAR_CONTROLS[i].enabled_in],
     safety_controls |-> SAFETY_CONTROLS]

\* a dict without entries
NoEntries == [k \in {} |-> TRUE]

\* get_default_config falling back to the pm_orchestrator preset
get_default_config_preset == generate_preset_config("pm_orchestrator")

\* get_default_config (lines 75-99): disabled, with neither granular_controls
\* nor safety_controls (read with .get defaults: no category, skipping on,
\* empty pattern lists)
get_default_config ==
    [enabled |-> FALSE,
     check_interval |-> 200,
     response_delay |-> 50,
     log_responses |-> TRUE,
     skip_dangerous_operations |-> TRUE,
     granular_controls |-> NoEntries,
     safety_controls |-> [dangerous_patterns |-> << >>,
                          require_manual_approval |-> << >>]]

\* get_preset_config (lines 63-73): get_preset, the default on ValueError
get_preset_config(preset_name) ==
    IF raises_ValueError(preset_name)
    THEN get_default_config
    ELSE generate_preset_config(preset_name)

\* the policies a config file can hold
FileConfigs ==
    [enabled : BOOLEAN,
     check_interval : {200},
     response_delay : {50},
     log_responses : {TRUE},
     skip_dangerous_operations : BOOLEAN,
     granular_controls : [CategoryNames -> BOOLEAN],
     safety_controls : {SAFETY_CONTROLS}]

\* the document at config_path: absent, not JSON, or a JSON object whose
\* entries are a policy under "auto_responder" and/or one under preset names
MissingFile == [exists |-> FALSE, parses |-> FALSE, entries |-> NoEntries]
UnparsableFile == [exists |-> TRUE, parses |-> FALSE, entries |-> NoEntries]
SinglePolicyFile(cfg) ==
    [exists |-> TRUE, parses |-> TRUE,
     entries |-> [k \in {"auto_responder"} |-> cfg]]

\* load_config looking only for the single-policy shape
load_config_single_only(preset_name, doc) ==
    IF ~doc.exists \/ ~doc.parses
    THEN get_preset_config(preset_name)
    ELSE IF "auto_responder" \in DOMAIN doc.entries
    THEN doc.entries["auto_responder"]
    ELSE get_preset_config(preset_name)

\* load_config (lines 39-61): the policy the responder starts with
load_config(preset_name, doc) ==
    IF ~doc.exists \/ ~doc.parses
    THEN get_preset_config(preset_name)
    ELSE IF preset_name \in DOMAIN doc.entries
    THEN doc.entries[preset_name]
    ELSE IF "auto_responder" \in DOMAIN doc.entries
    THEN doc.entries["auto_responder"]
    ELSE get_preset_config(preset_name)

(* ------------------------------------------------------------ the world *)
Sessions == {"s1", "s2"}
AllWindows == <<0, 1>>
\* what tmux list-windows can report: the windows, [] on error
WindowLists == {<< >>, AllWindows}
\* what tmux capture-pane can show to a monitor loop ("" on error)
PaneTexts == {<< >>, <<"y">>, <<"r", "m", "y">>}
RECURSIVE SeqsUpTo(_)
SeqsUpTo(n) ==
    IF n = 0 THEN {<< >>}
    ELSE LET shorter == SeqsUpTo(n - 1)
         IN  shorter \cup {Append(q, ch) : q \in shorter, ch \in Alphabet}
Texts == SeqsUpTo(MaxLen)

Threads == 1..MaxThreads

VARIABLES
    config,        \* self.config["auto_responder"]: the live policy dict
    file,          \* the document at self.config_path
    script_exists, \* os.path.exists(send_script): the helper script is installed
    running,       \* self.running
    returned,      \* what the last start_for_session / *_category call returned
    response_log,  \* self.response_log
    nthreads,      \* monitor threads created so far
    pc,            \* position of each monitor thread in monitor_session
    session,       \* session_name argument of each monitor thread
    windows,       \* the list enumerated in the thread's current tick
    idx,           \* position of the for loop in that list
    prompt_info,   \* the thread's local prompt_info
    send_keys,     \* adapter calls that inject keystrokes, in order
    prompts,       \* non-empty captures shown so far
    commands,      \* operator commands issued so far
    send_failures, \* keystroke sends rejected so far
    observed_stop, \* history: the thread has read running = False
    stopped_live,  \* history: the thread was running at a stop()
    stop_targets,  \* history: the sessions a stop request was made for
    policy_changed,\* history: the policy changed after the tick's first window
    content,       \* SpecClassify: the captured text under classification
    result,        \* SpecClassify: what classification returned for it
    preset,        \* self.preset
    loaded,        \* __init__ has run load_config
    heap,          \* SpecPresets: the "enabled" entry of each category dict
    resolved,      \* SpecPresets: the policies get_preset has returned
    raised,        \* the exception that escaped the last get_preset / __init__
    tmux,          \* SpecStatus: the sessions and windows of the tmux server
    windows_status,\* SpecStatus: what get_all_windows_status returned
    wave_input,    \* SpecWave: the arguments of the call
    score,         \* SpecWave: what score_complexity returned
    strategy       \* SpecWave: what select_strategy returned

vars == <<config, file, script_exists, running, returned, response_log, nthreads, pc, session, windows,
          idx, prompt_info, send_keys, prompts, commands, send_failures,
          observed_stop, stopped_live, stop_targets, policy_changed, content,
          result, preset, loaded, heap, resolved, raised, tmux, windows_status,
          wave_input, score, strategy>>

policy_vars == <<config, file, script_exists>>
thread_vars == <<pc, session, windows, idx, prompt_info>>
history_vars == <<observed_stop, stopped_live, stop_targets, policy_changed>>
budget_vars == <<prompts, commands, send_failures>>
classify_vars == <<content, result>>
load_vars == <<preset, loaded>>
registry_vars == <<heap, resolved, raised>>
status_vars == <<tmux, windows_status>>
wave_vars == <<wave_input, score, strategy>>
library_vars == <<registry_vars, status_vars, wave_vars>>

NotClassified == [prompt_info |-> None, skipped |-> FALSE, done |-> FALSE]

\* no tmux server, no snapshot, no call made: the state of the library
\* modules while the responder is the one exercised
NoStatus == [returned |-> FALSE, error |-> FALSE, sessions |-> << >>]
NoScore == [done |-> FALSE, value |-> 0]
NoWaveInput ==
    [complexity |-> 0, file_count |-> 0, operation_types |-> 0, domains |-> 1,
     flags |-> 0, score |-> 0]
LibraryAtRest ==
    /\ heap = << >>
    /\ resolved = << >>
    /\ raised = "None"
    /\ tmux = << >>
    /\ windows_status = NoStatus
    /\ wave_input = NoWaveInput
    /\ score = NoScore
    /\ strategy = "None"

\* the monitor before any start_for_session and any command
MonitorAtRest ==
    /\ running = FALSE
    /\ returned = "None"
    /\ response_log = << >>
    /\ nthreads = 0
    /\ pc = [t \in Threads |-> "unstarted"]
    /\ session = [t \in Threads |-> "s1"]
    /\ windows = [t \in Threads |-> << >>]
    /\ idx = [t \in Threads |-> 1]
    /\ prompt_info = [t \in Threads |-> None]
    /\ send_keys = << >>
    /\ prompts = 0
    /\ commands = 0
    /\ send_failures = 0
    /\ observed_stop = [t \in Threads |-> FALSE]
    /\ stopped_live = [t \in Threads |-> FALSE]
    /\ stop_targets = {}
    /\ policy_changed = [t \in Threads |-> FALSE]

\* the preset argument of the responders that are monitored: the default
\* preset of the command line and a name that is no preset
MonitoredPresets == {"pm_orchestrator", "unknown"}

\* IntegratedAutoResponder.__init__ with a built-in or an unknown preset and
\* no config file
Init ==
    /\ preset \in MonitoredPresets
    /\ file = MissingFile
    /\ config = load_config(preset, file)
    /\ loaded = TRUE
    /\ LibraryAtRest
    /\ script_exists \in BOOLEAN
    /\ running = FALSE
    /\ returned = "None"
    /\ response_log = << >>
    /\ nthreads = 0
    /\ pc = [t \in Threads |-> "unstarted"]
    /\ session = [t \in Threads |-> "s1"]
    /\ windows = [t \in Threads |-> << >>]
    /\ idx = [t \in Threads |-> 1]
    /\ prompt_info = [t \in Threads |-> None]
    /\ send_keys = << >>
    /\ prompts = 0
    /\ commands = 0
    /\ send_failures = 0
    /\ observed_stop = [t \in Threads |-> FALSE]
    /\ stopped_live = [t \in Threads |-> FALSE]
    /\ stop_targets = {}
    /\ policy_changed = [t \in Threads |-> FALSE]
    /\ content = << >>
    /\ result = NotClassified

(* ------------------------------------------------------------ audit log *)
\* log_response: the log after the call (lines 229-246)
log_response(log, cfg, session_name, window_index, response, status, category) ==
    IF ~cfg.log_responses
    THEN log
    ELSE Append(log, [session |-> session_name, window |-> window_index,
                      response |-> response, status |-> status,
                      category |-> category])

(* -------------------------------------------------- operator's commands *)
\* save_config: the file after the call; the write may fail, which is caught
save_config(cfg, ok) ==
    IF ok THEN SinglePolicyFile(cfg) ELSE file

\* history: the thread has classified a window of the tick it is in
MidTick(t) ==
    \/ pc[t] \in {"send", "enter", "approved"}
    \/ pc[t] \in {"for", "check"} /\ idx[t] > 1

\* history: policy_changed after a command that leaves the policy cfg
PolicyChangedBy(cfg) ==
    [t \in Threads |-> policy_changed[t] \/ (cfg # config /\ MidTick(t))]

\* start_for_session without the test of is_enabled() (lines 278-280)
StartForSessionUnchecked(s) ==
    /\ nthreads < MaxThreads
    /\ s = "s2" => \E t \in 1..nthreads : session[t] = "s1"
    /\ running' = TRUE
    /\ returned' = "True"
    /\ nthreads' = nthreads + 1
    /\ pc' = [pc EXCEPT ![nthreads + 1] = "while"]
    /\ session' = [session EXCEPT ![nthreads + 1] = s]
    /\ UNCHANGED <<policy_vars, response_log, windows, idx, prompt_info,
                   send_keys, history_vars, budget_vars, classify_vars, load_vars, library_vars>>

\* start_for_session (lines 276-286)
StartForSession(s) ==
    /\ nthreads < MaxThreads
    \* sessions are named in the order of their first use
    /\ s = "s2" => \E t \in 1..nthreads : session[t] = "s1"
    /\ IF ~config.enabled
       THEN /\ returned' = "False"
            /\ UNCHANGED <<policy_vars, running, response_log, nthreads,
                           thread_vars, send_keys, history_vars, budget_vars,
                           classify_vars, load_vars, library_vars>>
       ELSE /\ running' = TRUE
            /\ returned' = "True"
            /\ nthreads' = nthreads + 1
            /\ pc' = [pc EXCEPT ![nthreads + 1] = "while"]
            /\ session' = [session EXCEPT ![nthreads + 1] = s]
            /\ UNCHANGED <<policy_vars, response_log, windows, idx, prompt_info,
                           send_keys, history_vars, budget_vars, classify_vars, load_vars, library_vars>>

\* stop (lines 288-291); s is the session the caller wants to stop
\* monitoring, one of the monitored sessions when there is any
Stop(s) ==
    /\ commands < MaxCommands
    /\ IF nthreads = 0 THEN s = "s1" ELSE \E t \in 1..nthreads : session[t] = s
    /\ commands' = commands + 1
    /\ running' = FALSE
    /\ returned' = "None"
    /\ stopped_live' =
          [t \in Threads |-> stopped_live[t] \/ pc[t] \notin {"unstarted", "done"}]
    /\ stop_targets' = stop_targets \cup {s}
    /\ UNCHANGED <<policy_vars, response_log, nthreads, thread_vars, send_keys,
                   prompts, send_failures, observed_stop, policy_changed,
                   classify_vars, load_vars, library_vars>>

\* enable (lines 105-111)
Enable ==
    /\ commands < MaxCommands
    /\ commands' = commands + 1
    /\ config' = [config EXCEPT !.enabled = TRUE]
    /\ \E ok \in BOOLEAN : file' = save_config(config', ok)
    /\ returned' = "None"
    /\ policy_changed' = PolicyChangedBy(config')
    /\ UNCHANGED <<script_exists, running, response_log, nthreads, thread_vars,
                   send_keys, prompts, send_failures, observed_stop, stopped_live,
                   stop_targets, classify_vars, load_vars, library_vars>>

\* disable (lines 113-120), which ends with stop()
Disable ==
    /\ commands < MaxCommands
    /\ commands' = commands + 1
    /\ config' = [config EXCEPT !.enabled = FALSE]
    /\ \E ok \in BOOLEAN : file' = save_config(config', ok)
    /\ running' = FALSE
    /\ returned' = "None"
    /\ stopped_live' =
          [t \in Threads |-> stopped_live[t] \/ pc[t] \notin {"unstarted", "done"}]
    /\ stop_targets' = Sessions
    /\ policy_changed' = PolicyChangedBy(config')
    /\ UNCHANGED <<script_exists, response_log, nthreads, thread_vars, send_keys,
                   prompts, send_failures, observed_stop, classify_vars, load_vars, library_vars>>

\* enable_category / disable_category writing the file whether or not the
\* category exists
SetCategoryAlwaysSaves(category, flag) ==
    /\ commands < MaxCommands
    /\ commands' = commands + 1
    /\ IF category \in DOMAIN config.granular_controls
       THEN /\ config' = [config EXCEPT !.granular_controls[category] = flag]
            /\ returned' = "True"
       ELSE /\ config' = config
            /\ returned' = "False"
    /\ file' = save_config(config', TRUE)
    /\ policy_changed' = PolicyChangedBy(config')
    /\ UNCHANGED <<script_exists, running, response_log, nthreads, thread_vars,
                   send_keys, prompts, send_failures, observed_stop, stopped_live,
                   stop_targets, classify_vars, load_vars, library_vars>>

\* enable_category / disable_category (lines 293-323) with enabled := flag
SetCategory(category, flag) ==
    /\ commands < MaxCommands
    /\ commands' = commands + 1
    /\ IF category \in DOMAIN config.granular_controls
       THEN /\ config' = [config EXCEPT !.granular_controls[category] = flag]
            /\ \E ok \in BOOLEAN : file' = save_config(config', ok)
            /\ returned' = "True"
       ELSE /\ UNCHANGED <<config, file>>
            /\ returned' = "False"
    /\ policy_changed' = PolicyChangedBy(config')
    /\ UNCHANGED <<script_exists, running, response_log, nthreads, thread_vars,
                   send_keys, prompts, send_failures, observed_stop, stopped_live,
                   stop_targets, classify_vars, load_vars, library_vars>>

EnableCategory(category) == SetCategory(category, TRUE)

DisableCategory(category) == SetCategory(category, FALSE)

(* ------------------------------------------------------ monitor_session *)
\* Locals that are dead at a position (windows and the loop index outside a
\* tick, prompt_info outside the handling of one window) are kept at their
\* initial values.

\* line 252: while self.running and self.is_enabled()
WhileCheck(t) ==
    /\ pc[t] = "while"
    /\ pc' = [pc EXCEPT ![t] = IF running /\ config.enabled THEN "enum" ELSE "done"]
    /\ observed_stop' = [observed_stop EXCEPT ![t] = @ \/ ~running]
    /\ UNCHANGED <<policy_vars, running, returned, response_log, nthreads, session, windows,
                   idx, prompt_info, send_keys, stopped_live, stop_targets,
                   policy_changed, budget_vars, classify_vars, load_vars, library_vars>>

\* line 254: windows = self.get_session_windows(session_name)
Enumerate(t) ==
    /\ pc[t] = "enum"
    /\ \E ws \in WindowLists : windows' = [windows EXCEPT ![t] = ws]
    /\ idx' = [idx EXCEPT ![t] = 1]
    /\ pc' = [pc EXCEPT ![t] = "for"]
    /\ UNCHANGED <<policy_vars, running, returned, response_log, nthreads, session,
                   prompt_info, send_keys, history_vars, budget_vars, classify_vars, load_vars, library_vars>>

\* the for loop returning from monitor_session when the list is empty
ForNextEmptyTerminates(t) ==
    /\ pc[t] = "for"
    /\ IF idx[t] > Len(windows[t])
       THEN /\ pc' = [pc EXCEPT ![t] = IF windows[t] = << >> THEN "done" ELSE "sleep"]
            /\ windows' = [windows EXCEPT ![t] = << >>]
            /\ idx' = [idx EXCEPT ![t] = 1]
            /\ policy_changed' = [policy_changed EXCEPT ![t] = FALSE]
            /\ UNCHANGED observed_stop
       ELSE IF ~running
       THEN /\ pc' = [pc EXCEPT ![t] = "sleep"]
            /\ windows' = [windows EXCEPT ![t] = << >>]
            /\ idx' = [idx EXCEPT ![t] = 1]
            /\ policy_changed' = [policy_changed EXCEPT ![t] = FALSE]
            /\ observed_stop' = [observed_stop EXCEPT ![t] = TRUE]
       ELSE /\ pc' = [pc EXCEPT ![t] = "check"]
            /\ UNCHANGED <<windows, idx, observed_stop, policy_changed>>
    /\ UNCHANGED <<policy_vars, running, returned, response_log, nthreads, session,
                   prompt_info, send_keys, stopped_live, stop_targets, budget_vars,
                   classify_vars, load_vars, library_vars>>

\* lines 256-258: the next window of the list, unless running was cleared
ForNext(t) ==
    /\ pc[t] = "for"
    /\ IF idx[t] > Len(windows[t])
       THEN /\ pc' = [pc EXCEPT ![t] = "sleep"]
            /\ windows' = [windows EXCEPT ![t] = << >>]
            /\ idx' = [idx EXCEPT ![t] = 1]
            /\ policy_changed' = [policy_changed EXCEPT ![t] = FALSE]
            /\ UNCHANGED observed_stop
       ELSE IF ~running
       THEN /\ pc' = [pc EXCEPT ![t] = "sleep"]
            /\ windows' = [windows EXCEPT ![t] = << >>]
            /\ idx' = [idx EXCEPT ![t] = 1]
            /\ policy_changed' = [policy_changed EXCEPT ![t] = FALSE]
            /\ observed_stop' = [observed_stop EXCEPT ![t] = TRUE]
       ELSE /\ pc' = [pc EXCEPT ![t] = "check"]
            /\ UNCHANGED <<windows, idx, observed_stop, policy_changed>>
    /\ UNCHANGED <<policy_vars, running, returned, response_log, nthreads, session,
                   prompt_info, send_keys, stopped_live, stop_targets, budget_vars,
                   classify_vars, load_vars, library_vars>>

\* the monitor loop with the test of prompt_info (line 261) left out
CheckAlwaysSend(t) ==
    /\ pc[t] = "check"
    /\ \E text \in PaneTexts :
          LET r == check_for_confirmation_prompt(text, config)
          IN  /\ text # << >> => prompts < MaxPrompts
              /\ prompts' = IF text # << >> THEN prompts + 1 ELSE prompts
              /\ response_log' =
                    IF r.skipped
                    THEN log_response(response_log, config, session[t],
                                      windows[t][idx[t]], "SKIPPED",
                                      "Dangerous operation detected", "")
                    ELSE response_log
              /\ prompt_info' = [prompt_info EXCEPT ![t] = r.prompt_info]
              /\ pc' = [pc EXCEPT ![t] = "send"]
    /\ UNCHANGED <<policy_vars, running, returned, nthreads, session, windows, idx, send_keys,
                   history_vars, commands, send_failures, classify_vars, load_vars, library_vars>>

\* the monitor loop remembering the windows it has answered: a window that
\* already received keystrokes is never answered again
CheckOnce(t) ==
    /\ pc[t] = "check"
    /\ \E text \in PaneTexts :
          LET r == check_for_confirmation_prompt(text, config)
              answered == \E i \in 1..Len(send_keys) :
                              /\ send_keys[i].session = session[t]
                              /\ send_keys[i].window = windows[t][idx[t]]
          IN  /\ text # << >> => prompts < MaxPrompts
              /\ prompts' = IF text # << >> THEN prompts + 1 ELSE prompts
              /\ response_log' =
                    IF r.skipped
                    THEN log_response(response_log, config, session[t],
                                      windows[t][idx[t]], "SKIPPED",
                                      "Dangerous operation detected", "")
                    ELSE response_log
              /\ IF r.prompt_info = None \/ answered
                 THEN /\ pc' = [pc EXCEPT ![t] = "for"]
                      /\ idx' = [idx EXCEPT ![t] = @ + 1]
                      /\ prompt_info' = [prompt_info EXCEPT ![t] = None]
                 ELSE /\ pc' = [pc EXCEPT ![t] = "send"]
                      /\ prompt_info' = [prompt_info EXCEPT ![t] = r.prompt_info]
                      /\ UNCHANGED idx
    /\ UNCHANGED <<policy_vars, running, returned, nthreads, session, windows, send_keys,
                   history_vars, commands, send_failures, classify_vars, load_vars, library_vars>>

\* lines 260-261: check_for_confirmation_prompt on a fresh capture of the window
Check(t) ==
    /\ pc[t] = "check"
    /\ \E text \in PaneTexts :
          LET r == check_for_confirmation_prompt(text, config)
          IN  /\ text # << >> => prompts < MaxPrompts
              /\ prompts' = IF text # << >> THEN prompts + 1 ELSE prompts
              /\ response_log' =
                    IF r.skipped
                    THEN log_response(response_log, config, session[t],
                                      windows[t][idx[t]], "SKIPPED",
                                      "Dangerous operation detected", "")
                    ELSE response_log
              /\ prompt_info' = [prompt_info EXCEPT ![t] = r.prompt_info]
              /\ IF r.prompt_info = None
                 THEN /\ pc' = [pc EXCEPT ![t] = "for"]
                      /\ idx' = [idx EXCEPT ![t] = @ + 1]
                 ELSE /\ pc' = [pc EXCEPT ![t] = "send"]
                      /\ UNCHANGED idx
    /\ UNCHANGED <<policy_vars, running, returned, nthreads, session, windows, send_keys,
                   history_vars, commands, send_failures, classify_vars, load_vars, library_vars>>

\* an exception other than CalledProcessError in the body of the try block
\* (lines 253-274): the handler prints, sleeps, and the while loop goes on
CheckRaises(t) ==
    /\ pc[t] = "check"
    /\ pc' = [pc EXCEPT ![t] = "sleep"]
    /\ windows' = [windows EXCEPT ![t] = << >>]
    /\ idx' = [idx EXCEPT ![t] = 1]
    /\ policy_changed' = [policy_changed EXCEPT ![t] = FALSE]
    /\ UNCHANGED <<policy_vars, running, returned, response_log, nthreads, session,
                   prompt_info, send_keys, observed_stop, stopped_live,
                   stop_targets, budget_vars, classify_vars, load_vars, library_vars>>

\* one adapter call that injects keystrokes: the target, the keys, the route
\* and whether tmux accepted it (exit status 0)
send_call(session_name, window_index, keys, via, ok) ==
    [session |-> session_name, window |-> window_index, keys |-> keys,
     via |-> via, ok |-> ok]

\* send-claude-message.sh <target> <message>: the calls the helper makes when
\* it succeeds (message, pause, Enter) and when it exits non-zero
send_claude_message(session_name, window_index, message, ok) ==
    IF ok
    THEN << send_call(session_name, window_index, message, "script", TRUE),
            send_call(session_name, window_index, "Enter", "script", TRUE) >>
    ELSE << send_call(session_name, window_index, message, "script", FALSE) >>

\* send_response up to its first adapter call (lines 204-217): the helper
\* script in one call when it exists (a non-zero exit raises
\* CalledProcessError, lines 225-227), else the response token by send-keys,
\* run without check=True so that a failure goes unnoticed
SendResponse(t) ==
    /\ pc[t] = "send"
    /\ \E ok \in BOOLEAN :
          LET w == windows[t][idx[t]]
              r == prompt_info[t].response
          IN  /\ ~ok => send_failures < MaxSendFailures
              /\ send_failures' = IF ok THEN send_failures ELSE send_failures + 1
              /\ IF script_exists
                 THEN /\ send_keys' =
                            send_keys \o send_claude_message(session[t], w, r, ok)
                      /\ IF ok
                         THEN /\ response_log' =
                                    log_response(response_log, config, session[t],
                                                 w, r, "Success", "")
                              /\ pc' = [pc EXCEPT ![t] = "approved"]
                              /\ UNCHANGED <<idx, prompt_info>>
                         ELSE /\ response_log' =
                                    log_response(response_log, config, session[t],
                                                 w, r, "Error", "")
                              /\ pc' = [pc EXCEPT ![t] = "for"]
                              /\ idx' = [idx EXCEPT ![t] = @ + 1]
                              /\ prompt_info' = [prompt_info EXCEPT ![t] = None]
                 ELSE /\ send_keys' =
                            Append(send_keys,
                                   send_call(session[t], w, r, "tmux", ok))
                      /\ pc' = [pc EXCEPT ![t] = "enter"]
                      /\ UNCHANGED <<response_log, idx, prompt_info>>
    /\ UNCHANGED <<policy_vars, running, returned, nthreads, session, windows, history_vars,
                   prompts, commands, classify_vars, load_vars, library_vars>>

\* send_response logging Success without the Enter keystroke
SendEnterOmitted(t) ==
    /\ pc[t] = "enter"
    /\ response_log' =
          log_response(response_log, config, session[t], windows[t][idx[t]],
                       prompt_info[t].response, "Success", "")
    /\ pc' = [pc EXCEPT ![t] = "approved"]
    /\ UNCHANGED <<policy_vars, running, returned, nthreads, session, windows, idx,
                   prompt_info, send_keys, history_vars, budget_vars, classify_vars, load_vars, library_vars>>

\* lines 218-223: after the response delay, Enter by send-keys, then the
\* Success record; the calls are made without check=True and cannot raise
SendEnter(t) ==
    /\ pc[t] = "enter"
    /\ LET w == windows[t][idx[t]]
       IN  /\ \E ok \in BOOLEAN :
                 /\ ~ok => send_failures < MaxSendFailures
                 /\ send_failures' = IF ok THEN send_failures ELSE send_failures + 1
                 /\ send_keys' =
                       Append(send_keys,
                              send_call(session[t], w, "Enter", "tmux", ok))
           /\ response_log' =
                 log_response(response_log, config, session[t], w,
                              prompt_info[t].response, "Success", "")
    /\ pc' = [pc EXCEPT ![t] = "approved"]
    /\ UNCHANGED <<policy_vars, running, returned, nthreads, session, windows, idx,
                   prompt_info, history_vars, prompts, commands, classify_vars, load_vars, library_vars>>

\* lines 267-268: the Auto-approved record, then the next window
LogApproved(t) ==
    /\ pc[t] = "approved"
    /\ response_log' =
          log_response(response_log, config, session[t], windows[t][idx[t]],
                       prompt_info[t].response, "Auto-approved",
                       prompt_info[t].category)
    /\ idx' = [idx EXCEPT ![t] = @ + 1]
    /\ prompt_info' = [prompt_info EXCEPT ![t] = None]
    /\ pc' = [pc EXCEPT ![t] = "for"]
    /\ UNCHANGED <<policy_vars, running, returned, nthreads, session, windows, send_keys,
                   history_vars, budget_vars, classify_vars, load_vars, library_vars>>

\* lines 270 and 274: time.sleep(check_interval), then back to the while test
Sleep(t) ==
    /\ pc[t] = "sleep"
    /\ pc' = [pc EXCEPT ![t] = "while"]
    /\ UNCHANGED <<policy_vars, running, returned, response_log, nthreads, session, windows,
                   idx, prompt_info, send_keys, history_vars, budget_vars,
                   classify_vars, load_vars, library_vars>>

ThreadStep(t) ==
    \/ WhileCheck(t)
    \/ Enumerate(t)
    \/ ForNext(t)
    \/ Check(t)
    \/ CheckRaises(t)
    \/ SendResponse(t)
    \/ SendEnter(t)
    \/ LogApproved(t)
    \/ Sleep(t)

Next ==
    \/ \E s \in Sessions : StartForSession(s)
    \/ \E s \in Sessions : Stop(s)
    \/ Enable
    \/ Disable
    \/ \E c \in CategoryNames \cup {"unknown"} : EnableCategory(c)
    \/ \E c \in CategoryNames \cup {"unknown"} : DisableCategory(c)
    \/ \E t \in Threads : ThreadStep(t)

Spec == Init /\ [][Next]_vars

\* the threads are scheduled fairly: a monitor thread that can step does step
FairSpec == Spec /\ \A t \in Threads : WF_vars(ThreadStep(t))

(* ------------------------------------------- classification on its own *)
\* a responder built from a config file that holds any policy, looking at
\* any captured text
InitClassify ==
    /\ config \in FileConfigs
    /\ content \in Texts
    /\ result = NotClassified
    /\ file = SinglePolicyFile(config)
    /\ script_exists = TRUE
    /\ preset = "pm_orchestrator"
    /\ loaded = TRUE
    /\ LibraryAtRest
    /\ running = FALSE
    /\ returned = "None"
    /\ response_log = << >>
    /\ nthreads = 0
    /\ pc = [t \in Threads |-> "unstarted"]
    /\ session = [t \in Threads |-> "s1"]
    /\ windows = [t \in Threads |-> << >>]
    /\ idx = [t \in Threads |-> 1]
    /\ prompt_info = [t \in Threads |-> None]
    /\ send_keys = << >>
    /\ prompts = 0
    /\ commands = 0
    /\ send_failures = 0
    /\ observed_stop = [t \in Threads |-> FALSE]
    /\ stopped_live = [t \in Threads |-> FALSE]
    /\ stop_targets = {}
    /\ policy_changed = [t \in Threads |-> FALSE]

\* check_for_confirmation_prompt applied to the captured content
Classify ==
    /\ ~result.done
    /\ LET r == check_for_confirmation_prompt(content, config)
       IN  result' = [prompt_info |-> r.prompt_info, skipped |-> r.skipped,
                      done |-> TRUE]
    /\ UNCHANGED <<policy_vars, running, returned, response_log, nthreads, thread_vars,
                   send_keys, history_vars, budget_vars, content, load_vars,
                   library_vars>>

NextClassify == Classify

SpecClassify == InitClassify /\ [][NextClassify]_vars

(* ------------------------------------------- construction from the file *)
\* the preset names a responder is constructed with
LoadPresets == PresetNames \cup {"unknown"}

\* the top-level keys and the policies of the config files drawn
DocKeys == {"auto_responder", "pm_orchestrator", "conservative"}
DocPolicies ==
    {generate_preset_config("pm_orchestrator"),
     generate_preset_config("autonomous_agent"),
     [generate_preset_config("pm_orchestrator") EXCEPT !.enabled = FALSE]}

\* what can be found at config_path
Documents ==
    {MissingFile, UnparsableFile} \cup
    {[exists |-> TRUE, parses |-> TRUE, entries |-> e] :
        e \in UNION {[K -> DocPolicies] : K \in SUBSET DocKeys}}

\* self.config before __init__ has assigned it
NotLoaded == [enabled |-> FALSE, granular_controls |-> NoEntries]

\* a responder about to be constructed on a config file
InitLoad ==
    /\ preset \in LoadPresets
    /\ file \in Documents
    /\ config = NotLoaded
    /\ loaded = FALSE
    /\ script_exists = TRUE
    /\ content = << >>
    /\ result = NotClassified
    /\ MonitorAtRest
    /\ LibraryAtRest

\* __init__ (lines 31-37): self.config = self.load_config(); load_config and
\* get_preset_config catch FileNotFoundError, JSONDecodeError and ValueError
LoadConfig ==
    /\ ~loaded
    /\ config' = load_config(preset, file)
    /\ loaded' = TRUE
    /\ raised' = "None"
    /\ UNCHANGED <<file, script_exists, running, returned, response_log,
                   nthreads, thread_vars, send_keys, history_vars, budget_vars,
                   classify_vars, preset, heap, resolved, status_vars,
                   wave_vars>>

NextLoad ==
    \/ LoadConfig
    \/ loaded /\ Enable
    \/ loaded /\ Disable
    \/ loaded /\ \E c \in CategoryNames \cup {"unknown"} : EnableCategory(c)
    \/ loaded /\ \E c \in CategoryNames \cup {"unknown"} : DisableCategory(c)

SpecLoad == InitLoad /\ [][NextLoad]_vars

(* ------------------------------------------------- the preset registry *)
\* the category dicts of one generate_preset_config call are new objects
\* (line 144); cells maps each category to the heap address of its
\* "enabled" entry.  The pattern lists and SAFETY_CONTROLS are the
\* catalogue's own objects in every policy (lines 148 and 158).
fresh_cells(h) ==
    [c \in CategoryNames |->
        Len(h) + CHOOSE i \in 1..Len(GRANULAR_CONTROLS) :
                    GRANULAR_CONTROLS[i].name = c]

\* the heap after the category dicts of generate_preset_config(preset_name)
\* were created at the addresses of fresh_cells(h)
allocate(h, preset_name) ==
    h \o [i \in 1..Len(GRANULAR_CONTROLS) |->
            generate_preset_config(preset_name)
                .granular_controls[GRANULAR_CONTROLS[i].name]]

\* the policy a caller reads through the references it holds
read_policy(preset_name, h, cells) ==
    [enabled |-> generate_preset_config(preset_name).enabled,
     check_interval |-> generate_preset_config(preset_name).check_interval,
     response_delay |-> generate_preset_config(preset_name).response_delay,
     log_responses |-> generate_preset_config(preset_name).log_responses,
     granular_controls |->
        [i \in 1..Len(GRANULAR_CONTROLS) |->
            [name |-> GRANULAR_CONTROLS[i].name,
             enabled |-> h[cells[GRANULAR_CONTROLS[i].name]],
             patterns |-> GRANULAR_CONTROLS[i].patterns,
             response |-> GRANULAR_CONTROLS[i].response]],
     safety_controls |-> generate_preset_config(preset_name).safety_controls]

\* history: the policies returned so far that were changed since
Stale ==
    {i \in 1..Len(resolved) :
        read_policy(resolved[i].preset, heap, resolved[i].cells)
            # resolved[i].returned}

InitPresets ==
    /\ preset = "pm_orchestrator"
    /\ file = MissingFile
    /\ config = load_config(preset, file)
    /\ loaded = TRUE
    /\ script_exists = TRUE
    /\ content = << >>
    /\ result = NotClassified
    /\ MonitorAtRest
    /\ LibraryAtRest

\* a registry that keeps the policy objects and hands out the same object
\* for the same name
GetPresetCached(name) ==
    /\ UNCHANGED <<policy_vars, running, returned, response_log, nthreads,
                   thread_vars, send_keys, history_vars, budget_vars,
                   classify_vars, load_vars, status_vars, wave_vars>>
    /\ IF raises_ValueError(name)
       THEN /\ raised' = "ValueError"
            /\ UNCHANGED <<heap, resolved>>
       ELSE /\ Len(resolved) < MaxResolutions
            /\ raised' = "None"
            /\ IF \E i \in 1..Len(resolved) : resolved[i].preset = name
               THEN LET first == CHOOSE i \in 1..Len(resolved) :
                                     resolved[i].preset = name
                    IN  /\ heap' = heap
                        /\ resolved' =
                              Append(resolved,
                                     [preset |-> name,
                                      cells |-> resolved[first].cells,
                                      returned |->
                                         read_policy(name, heap,
                                                     resolved[first].cells),
                                      stale |-> Stale])
               ELSE /\ heap' = allocate(heap, name)
                    /\ resolved' =
                          Append(resolved,
                                 [preset |-> name,
                                  cells |-> fresh_cells(heap),
                                  returned |->
                                     read_policy(name, heap', fresh_cells(heap)),
                                  stale |-> Stale])

\* get_preset (lines 188-193): PRESETS[name]() or generate_preset_config(name),
\* either way a call of generate_preset_config, which raises ValueError for
\* an unknown name
GetPreset(name) ==
    /\ UNCHANGED <<policy_vars, running, returned, response_log, nthreads,
                   thread_vars, send_keys, history_vars, budget_vars,
                   classify_vars, load_vars, status_vars, wave_vars>>
    /\ IF raises_ValueError(name)
       THEN /\ raised' = "ValueError"
            /\ UNCHANGED <<heap, resolved>>
       ELSE /\ Len(resolved) < MaxResolutions
            /\ raised' = "None"
            /\ heap' = allocate(heap, name)
            /\ resolved' =
                  Append(resolved,
                         [preset |-> name,
                          cells |-> fresh_cells(heap),
                          returned |-> read_policy(name, heap', fresh_cells(heap)),
                          stale |-> Stale])

\* the assignment of enable_category / disable_category (lines 297 and 313)
\* on a policy that get_preset returned
Toggle(i, category, flag) ==
    /\ i \in 1..Len(resolved)
    /\ heap' = [heap EXCEPT ![resolved[i].cells[category]] = flag]
    /\ UNCHANGED <<policy_vars, running, returned, response_log, nthreads,
                   thread_vars, send_keys, history_vars, budget_vars,
                   classify_vars, load_vars, resolved, raised, status_vars,
                   wave_vars>>

NextPresets ==
    \/ \E name \in DOMAIN PRESET_INFO \cup {"unknown"} : GetPreset(name)
    \/ \E i \in 1..MaxResolutions, c \in CategoryNames, flag \in BOOLEAN :
          Toggle(i, c, flag)

SpecPresets == InitPresets /\ [][NextPresets]_vars

(* ------------------------------------------------- tmux_utils: status *)
\* the lines tmux list-windows prints for a session: the windows in order,
\* each with a line of three fields or not (a window name holding ':'),
\* and with details that display-message / capture-pane can read or not
WindowLines ==
    UNION {[1..n -> [well_formed : BOOLEAN, readable : BOOLEAN]] :
              n \in 1..Len(AllWindows)}

TmuxSessions(name) ==
    [name : {name}, listable : BOOLEAN, windows : WindowLines]

\* a tmux server: running or not, its sessions in list-sessions order
TmuxServers ==
    [running : BOOLEAN,
     sessions : {<< >>}
                \cup {<<a>> : a \in TmuxSessions("s1")}
                \cup {<<a, b>> : a \in TmuxSessions("s1"),
                                 b \in TmuxSessions("s2")}]

\* positions of the lines of a session that split into three fields
RECURSIVE well_formed_lines(_, _)
well_formed_lines(lines, n) ==
    IF n > Len(lines) THEN << >>
    ELSE IF lines[n].well_formed
    THEN <<n>> \o well_formed_lines(lines, n + 1)
    ELSE well_formed_lines(lines, n + 1)

\* get_tmux_sessions (lines 75-143): raises when the server is not running
\* or when list-windows fails for a session; skips malformed window lines
get_tmux_sessions(server) ==
    IF ~server.running
    THEN [raised |-> TRUE, sessions |-> << >>]
    ELSE IF \E n \in 1..Len(server.sessions) : ~server.sessions[n].listable
    THEN [raised |-> TRUE, sessions |-> << >>]
    ELSE [raised |-> FALSE,
          sessions |->
             [n \in 1..Len(server.sessions) |->
                 [name |-> server.sessions[n].name,
                  windows |-> well_formed_lines(server.sessions[n].windows, 1)]]]

\* get_all_windows_status (lines 281-333): an error snapshot without
\* sessions when get_tmux_sessions raises, else every session it returned
\* with its windows, a window whose info cannot be read carrying an error
get_all_windows_status(server) ==
    LET got == get_tmux_sessions(server)
    IN  IF got.raised
        THEN [returned |-> TRUE, error |-> TRUE, sessions |-> << >>]
        ELSE [returned |-> TRUE, error |-> FALSE,
              sessions |->
                 [n \in 1..Len(got.sessions) |->
                     [name |-> got.sessions[n].name,
                      windows |->
                         [m \in 1..Len(got.sessions[n].windows) |->
                             LET w == got.sessions[n].windows[m]
                             IN  [index |-> AllWindows[w],
                                  error |->
                                     ~server.sessions[n].windows[w].readable]]]]]

InitStatus ==
    /\ tmux \in TmuxServers
    /\ windows_status = NoStatus
    /\ preset = "pm_orchestrator"
    /\ file = MissingFile
    /\ config = load_config(preset, file)
    /\ loaded = TRUE
    /\ script_exists = TRUE
    /\ content = << >>
    /\ result = NotClassified
    /\ MonitorAtRest
    /\ heap = << >>
    /\ resolved = << >>
    /\ raised = "None"
    /\ wave_input = NoWaveInput
    /\ score = NoScore
    /\ strategy = "None"

GetAllWindowsStatus ==
    /\ ~windows_status.returned
    /\ windows_status' = get_all_windows_status(tmux)
    /\ UNCHANGED <<policy_vars, running, returned, response_log, nthreads,
                   thread_vars, send_keys, history_vars, budget_vars,
                   classify_vars, load_vars, registry_vars, tmux, wave_vars>>

NextStatus == GetAllWindowsStatus

SpecStatus == InitStatus /\ [][NextStatus]_vars

(* --------------------------------------------- core/wave_orchestrator *)
\* scores and the float argument complexity are counted in thousandths
\* (0.7 is 700); the products of a factor and its weight in millionths
max(a, b) == IF a >= b THEN a ELSE b
min(a, b) == IF a <= b THEN a ELSE b

\* round(x, 3) of a value given in millionths, in thousandths
round3(micro) == (micro + 500) \div 1000

\* score_complexity with min(1.0, .) alone around each factor
score_complexity_upper_only(complexity, file_count, operation_types, domains, flags) ==
    round3(min(min(1000, complexity) * 300
               + min(1000, file_count * 10) * 250
               + min(1000, operation_types * 200) * 200
               + min(1000, domains * 250) * 150
               + min(1000, flags * 200) * 100,
               1000000))

\* score_complexity (lines 30-45)
score_complexity(complexity, file_count, operation_types, domains, flags) ==
    round3(min(max(0, min(1000, complexity)) * 300
               + max(0, min(1000, file_count * 10)) * 250
               + max(0, min(1000, operation_types * 200)) * 200
               + max(0, min(1000, domains * 250)) * 150
               + max(0, min(1000, flags * 200)) * 100,
               1000000))

\* select_strategy testing score > 0.7 where the code tests score >= 0.7
select_strategy_strict(s, file_count) ==
    IF file_count > 100 /\ s > 700 THEN "enterprise"
    ELSE IF s > 700 THEN "systematic"
    ELSE IF s >= 500 THEN "adaptive"
    ELSE "progressive"

\* select_strategy (lines 56-63)
select_strategy(s, file_count) ==
    IF file_count > 100 /\ s >= 700 THEN "enterprise"
    ELSE IF s >= 700 THEN "systematic"
    ELSE IF s >= 500 THEN "adaptive"
    ELSE "progressive"

\* the arguments drawn: below, at and above every clamp and threshold
WaveInputs ==
    [complexity : {-500, 0, 450, 800, 1000, 2500},
     file_count : {-5, 0, 50, 100, 101, 1000},
     operation_types : {-1, 0, 3, 5, 50},
     domains : {-2, 1, 4, 9},
     flags : {-3, 0, 5, 7},
     score : {-100, 0, 499, 500, 699, 700, 1000, 1200}]

InitWave ==
    /\ wave_input \in WaveInputs
    /\ score = NoScore
    /\ strategy = "None"
    /\ preset = "pm_orchestrator"
    /\ file = MissingFile
    /\ config = load_config(preset, file)
    /\ loaded = TRUE
    /\ script_exists = TRUE
    /\ content = << >>
    /\ result = NotClassified
    /\ MonitorAtRest
    /\ heap = << >>
    /\ resolved = << >>
    /\ raised = "None"
    /\ tmux = << >>
    /\ windows_status = NoStatus

ScoreComplexity ==
    /\ ~score.done
    /\ score' =
          [done |-> TRUE,
           value |-> score_complexity(wave_input.complexity,
                                      wave_input.file_count,
                                      wave_input.operation_types,
                                      wave_input.domains, wave_input.flags)]
    /\ UNCHANGED <<policy_vars, running, returned, response_log, nthreads,
                   thread_vars, send_keys, history_vars, budget_vars,
                   classify_vars, load_vars, registry_vars, status_vars,
                   wave_input, strategy>>

SelectStrategy ==
    /\ strategy = "None"
    /\ strategy' = select_strategy(wave_input.score, wave_input.file_count)
    /\ UNCHANGED <<policy_vars, running, returned, response_log, nthreads,
                   thread_vars, send_keys, history_vars, budget_vars,
                   classify_vars, load_vars, registry_vars, status_vars,
                   wave_input, score>>

NextWave ==
    \/ ScoreComplexity
    \/ SelectStrategy

SpecWave == InitWave /\ [][NextWave]_vars

(* ================================================================ claims *)
\* what the claims say about a text, stated without the classifier
DangerousHit ==
    \E k \in 1..Len(SAFETY_CONTROLS.dangerous_patterns) :
        re_search(SAFETY_CONTROLS.dangerous_patterns[k], content)

ManualApprovalHit ==
    \E k \in 1..Len(SAFETY_CONTROLS.require_manual_approval) :
        re_search(SAFETY_CONTROLS.require_manual_approval[k], content)

PatternHits(i) ==
    {k \in 1..Len(GRANULAR_CONTROLS[i].patterns) :
        re_search(GRANULAR_CONTROLS[i].patterns[k], content)}

EnabledHits ==
    {i \in 1..Len(GRANULAR_CONTROLS) :
        /\ config.granular_controls[GRANULAR_CONTROLS[i].name]
        /\ PatternHits(i) # {}}

Least(S) == CHOOSE x \in S : \A y \in S : x <= y

\* C2: with skip_dangerous_operations set, a captured text that matches a
\* dangerous pattern never yields a Respond decision, whatever enabled
\* category patterns match it too; the capture is recorded as skipped.
C2_DangerousSuppressesRespond ==
    (result.done /\ config.skip_dangerous_operations /\ DangerousHit)
        => (result.prompt_info = None /\ result.skipped)

\* C2 witness: a classified text that matches a dangerous pattern and a
\* pattern of an enabled category, under skip_dangerous_operations.
C2_Witness ==
    /\ result.done
    /\ config.skip_dangerous_operations
    /\ DangerousHit
    /\ EnabledHits # {}

\* C3: the category named by a Respond decision is enabled in the policy the
\* text was classified under.
C3_RespondOnlyEnabled ==
    (result.done /\ result.prompt_info # None)
        => config.granular_controls[result.prompt_info.category]

\* C3 witness: a Respond decision for the second category while the first
\* category is disabled and one of its patterns matches the text.
C3_Witness ==
    /\ result.done
    /\ result.prompt_info # None
    /\ result.prompt_info.category = GRANULAR_CONTROLS[2].name
    /\ ~config.granular_controls[GRANULAR_CONTROLS[1].name]
    /\ PatternHits(1) # {}

\* C4: when no safety pattern matches, the decision is the first enabled
\* category in declared order with a matching pattern, with that category's
\* response and its first matching pattern; with no such category, no-match.
C4_FirstMatchWins ==
    (result.done /\ ~DangerousHit /\ ~ManualApprovalHit)
        => IF EnabledHits = {}
           THEN result.prompt_info = None
           ELSE LET c == GRANULAR_CONTROLS[Least(EnabledHits)]
                IN  result.prompt_info =
                       [category |-> c.name,
                        response |-> c.response,
                        pattern_matched |->
                           c.patterns[Least(PatternHits(Least(EnabledHits)))]]

\* C4 witness: both categories are enabled and match the text, and two
\* patterns of the first category match it.
C4_Witness ==
    /\ result.done
    /\ ~DangerousHit /\ ~ManualApprovalHit
    /\ EnabledHits = {1, 2}
    /\ Cardinality(PatternHits(1)) = 2
    /\ result.prompt_info.category = GRANULAR_CONTROLS[1].name

\* C5: a captured text that matches a manual-approval pattern yields no
\* Respond decision, whether or not skip_dangerous_operations is set.
C5_ManualApprovalAlwaysSkips ==
    (result.done /\ ManualApprovalHit) => result.prompt_info = None

\* a send to the thread's current window has begun and is not yet complete:
\* the response token is delivered and the Enter keystroke is still to come
Sending(t) == pc[t] = "enter"

\* the thread is inside a tick: it has enumerated the windows of its session
\* and has not yet left the for loop
InTick(t) == pc[t] \in {"for", "check", "send", "enter", "approved"}

\* C1: at most one keystroke send is outstanding for a (session, window):
\* no two monitor threads are between the response token and the Enter
\* keystroke for the same window of the same session.
C1_AtMostOneInFlight ==
    \A t1 \in Threads, t2 \in Threads :
        (t1 # t2 /\ Sending(t1) /\ Sending(t2) /\ session[t1] = session[t2])
            => windows[t1][idx[t1]] # windows[t2][idx[t2]]

\* C6: every send-keys call is made by a monitor thread whose classification
\* of the target window's capture, in the tick in progress, produced a Respond.
C6_SendOnlyOnRespond ==
    [][send_keys' # send_keys =>
          \E t \in Threads :
              /\ pc[t] \in {"send", "enter"}
              /\ prompt_info[t] # None
              /\ Len(send_keys') > Len(send_keys)
              /\ \A n \in (Len(send_keys) + 1)..Len(send_keys') :
                    /\ send_keys'[n].session = session[t]
                    /\ send_keys'[n].window = windows[t][idx[t]]]_vars

\* C6 witness: a tick has passed its first window, whose capture was skipped
\* as dangerous, and has sent no keystroke.
C6_Witness ==
    \E t \in Threads :
        /\ pc[t] = "for"
        /\ idx[t] = 2
        /\ send_keys = << >>
        /\ \E n \in 1..Len(response_log) :
              /\ response_log[n].response = "SKIPPED"
              /\ response_log[n].session = session[t]
              /\ response_log[n].window = windows[t][1]

\* C7: once a monitor loop has observed the stop flag (read running = False)
\* it handles no further window: it starts none, sends nothing and appends
\* no audit record.
C7_HaltsOnceStopObserved ==
    \A t \in Threads :
        observed_stop[t] => pc[t] \notin {"check", "send", "enter", "approved"}

\* C8: every monitor loop that was running when stop() was called eventually
\* terminates.
C8_StoppedLoopsTerminate ==
    \A t \in Threads : [](stopped_live[t] => <>(pc[t] = "done"))

\* C9: at no instant are two ticks over the same session in progress.
C9_NoOverlappingTicks ==
    \A t1 \in Threads, t2 \in Threads :
        (t1 # t2 /\ InTick(t1) /\ InTick(t2)) => session[t1] # session[t2]

\* C10: a loop leaves its while test on the running flag only when a stop
\* request was made for the session it monitors (disable stops them all).
C10_StopIsPerSession ==
    [][\A t \in Threads :
          (pc[t] = "while" /\ pc'[t] = "done" /\ config.enabled)
              => session[t] \in stop_targets]_vars

\* C11: a failure on one window of a tick does not keep the remaining
\* windows of that tick from being processed: a tick that is handling a
\* window goes to its sleep only from the last window of the list.
C11_FailureKeepsRemainingWindows ==
    [][\A t \in Threads :
          (pc[t] = "check" /\ pc'[t] = "sleep") => idx[t] = Len(windows[t])]_vars

\* the thread's enumeration has just failed: the list came back empty
EnumerationFailed(t) == pc[t] = "for" /\ windows[t] = << >>

\* C12: when enumeration fails the tick captures no window, sends no
\* keystroke and appends no record, the loop goes to its sleep instead of
\* terminating, and after the sleep it enumerates again as long as it is
\* still running and enabled.
C12_FailedEnumerationSkipsTick ==
    [][\A t \in Threads :
          /\ (EnumerationFailed(t) /\ pc'[t] # pc[t])
                => /\ pc'[t] = "sleep"
                   /\ UNCHANGED <<send_keys, prompts, response_log>>
          /\ (pc[t] = "sleep" /\ pc'[t] # pc[t]) => pc'[t] = "while"
          /\ (pc[t] = "while" /\ pc'[t] # pc[t] /\ running /\ config.enabled)
                => pc'[t] = "enum"]_vars

C12_Witness ==
    \E t \in Threads :
        /\ EnumerationFailed(t)
        /\ nthreads = 1
        /\ prompts > 0

\* C13: a step of a monitor loop in which an adapter call fails ends
\* send_response with failure: an Error record is appended and the loop is
\* at its next window, with no Success or Auto-approved record to follow.
C13_FailedSendReportsFailure ==
    [][\A t \in Threads :
          ( /\ pc'[t] # pc[t]
            /\ Len(send_keys') > Len(send_keys)
            /\ ~send_keys'[Len(send_keys')].ok )
              => /\ pc'[t] = "for"
                 /\ Len(response_log') = Len(response_log) + 1
                 /\ response_log'[Len(response_log')].status = "Error"]_vars

\* the adapter calls among the first k that carry keys to a window
CallsTo(k, session_name, window_index, enter) ==
    {n \in 1..k : /\ send_keys[n].session = session_name
                  /\ send_keys[n].window = window_index
                  /\ (send_keys[n].keys = "Enter") = enter}

\* every Enter sent so far answers a response token sent before it to the
\* same window, and a thread between the two has its token outstanding
TokenBeforeEnter ==
    /\ \A k \in 1..Len(send_keys) :
          Cardinality(CallsTo(k, send_keys[k].session, send_keys[k].window, TRUE))
             <= Cardinality(CallsTo(k, send_keys[k].session, send_keys[k].window, FALSE))
    /\ \A t \in Threads :
          pc[t] = "enter" =>
             Cardinality(CallsTo(Len(send_keys), session[t], windows[t][idx[t]], TRUE))
                < Cardinality(CallsTo(Len(send_keys), session[t], windows[t][idx[t]], FALSE))

RecordsSoFar(t) == IF pc[t] = "approved" THEN 1 ELSE 0

\* C15: every window a tick has processed got exactly one audit record:
\* when the loop moves on to the next window, the records appended for the
\* window it leaves number one.
C15_OneRecordPerWindow ==
    [][\A t \in Threads :
          idx'[t] = idx[t] + 1
             => RecordsSoFar(t) + Len(response_log') - Len(response_log) = 1]_vars

\* the cap on the in-memory audit log that the model can exceed
LogCap == MaxPrompts + 1

\* C16: the in-memory audit log never holds more records than its cap.
C16_LogBounded == Len(response_log) <= LogCap

\* C17: every window of a tick is classified under the policy the tick
\* started with: no classification happens in a tick after the policy was
\* changed behind an earlier window of that tick.
C17_PolicyFixedDuringTick ==
    [][\A t \in Threads :
          (pc[t] = "check" /\ pc'[t] \in {"for", "send"}) => ~policy_changed[t]]_vars

\* C18: start_for_session on a disabled policy returns False and starts
\* nothing: no monitor thread is created while the policy is disabled, and
\* the refused call leaves running, the threads, the captures and the
\* keystrokes as they were.
C18_DisabledStartRefused ==
    [][/\ ~config.enabled => nthreads' = nthreads
       /\ (returned' = "False" /\ returned # "False" /\ commands' = commands)
             => UNCHANGED <<running, nthreads, pc, send_keys, prompts>>]_vars

C18_Witness ==
    /\ returned = "False"
    /\ ~config.enabled
    /\ nthreads < MaxThreads

\* C19: enable_category / disable_category with an unknown name returns
\* False, changes no flag of the policy and writes nothing to the file.
C19_UnknownCategoryRejected ==
    [][(commands' = commands + 1 /\ returned' = "False")
          => UNCHANGED <<config, file>>]_vars

C19_Witness ==
    /\ returned = "False"
    /\ config.enabled
    /\ commands > 0
    /\ ~file.exists

\* C20: a category's flag changes in the live policy only together with a
\* completed save of the new policy: whenever the flags differ after a
\* step, the file holds the new policy.
C20_PersistedBeforeEffect ==
    [][config'.granular_controls # config.granular_controls
          => file' = [exists |-> TRUE, parses |-> TRUE,
                      entries |-> [k \in {"auto_responder"} |-> config']]]_vars

\* the file as load_config found it holds no entry the preset can resolve to
NoFileEntry ==
    \/ ~file.exists
    \/ ~file.parses
    \/ DOMAIN file.entries \cap {preset, "auto_responder"} = {}

\* C21: constructing a responder for a preset that is neither an entry of
\* the config file nor a built-in preset fails with an unknown-preset error
\* and leaves the responder without a policy.
C21_UnknownPresetFails ==
    (loaded /\ commands = 0 /\ raises_ValueError(preset) /\ NoFileEntry)
        => (raised = "ValueError" /\ config = NotLoaded)

\* the file maps preset names to policies and holds the requested one
HoldsPreset == file.parses /\ preset \in DOMAIN file.entries

\* the file is one policy body
IsSinglePolicy == file.parses /\ DOMAIN file.entries = {"auto_responder"}

\* C24: load_config takes the entry of the requested preset from a file
\* that maps preset names to policies, takes the document itself when it is
\* a single policy, and yields the same policy from either shape holding
\* the same body.
C24_BothShapesAccepted ==
    (loaded /\ commands = 0) =>
        /\ HoldsPreset => config = file.entries[preset]
        /\ IsSinglePolicy => config = file.entries["auto_responder"]
        /\ (HoldsPreset \/ IsSinglePolicy) =>
              /\ load_config(preset, SinglePolicyFile(config)) = config
              /\ load_config(preset, [exists |-> TRUE, parses |-> TRUE,
                                      entries |-> [k \in {preset} |-> config]])
                    = config

C24_Witness ==
    /\ loaded
    /\ commands = 0
    /\ HoldsPreset
    /\ "auto_responder" \in DOMAIN file.entries
    /\ file.entries["auto_responder"] # file.entries[preset]
    /\ config = file.entries[preset]

\* C29: saving a policy that was loaded from a multi-preset file keeps the
\* entries of the other presets in the file.
C29_SaveKeepsOtherPresets ==
    [][(loaded /\ commands = 0 /\ HoldsPreset /\ file' # file)
          => \A k \in DOMAIN file.entries \ {preset, "auto_responder"} :
                /\ k \in DOMAIN file'.entries
                /\ file'.entries[k] = file.entries[k]]_vars

\* C22: two resolutions of the same built-in preset return identical
\* policies (enablement, patterns, responses, safety block, timing), also
\* when the policy returned first was toggled before the second call.
C22_ResolveIsRepeatable ==
    \A i \in 1..Len(resolved), j \in 1..Len(resolved) :
        resolved[i].preset = resolved[j].preset
            => resolved[i].returned = resolved[j].returned

C22_Witness ==
    \E i \in 1..Len(resolved), j \in 1..Len(resolved) :
        /\ i < j
        /\ resolved[i].preset = resolved[j].preset
        /\ i \in resolved[j].stale

\* a returned policy without its enablement flags and timing constants
Skeleton(policy) ==
    [enabled |-> policy.enabled,
     log_responses |-> policy.log_responses,
     granular_controls |->
        [n \in 1..Len(policy.granular_controls) |->
            [name |-> policy.granular_controls[n].name,
             patterns |-> policy.granular_controls[n].patterns,
             response |-> policy.granular_controls[n].response]],
     safety_controls |-> policy.safety_controls]

\* C23: a resolved policy enables a category exactly when the preset is in
\* the category's enabled_in, and the policies of all presets agree on the
\* categories, their order, patterns, responses and the safety block.
C23_EnabledIffMember ==
    \A i \in 1..Len(resolved) :
        /\ Len(resolved[i].returned.granular_controls) = Len(GRANULAR_CONTROLS)
        /\ \A n \in 1..Len(GRANULAR_CONTROLS) :
              /\ resolved[i].returned.granular_controls[n].name
                    = GRANULAR_CONTROLS[n].name
              /\ resolved[i].returned.granular_controls[n].enabled
                    <=> resolved[i].preset \in GRANULAR_CONTROLS[n].enabled_in
        /\ resolved[i].returned.check_interval
              = PRESET_INFO[resolved[i].preset].check_interval
        /\ resolved[i].returned.response_delay
              = PRESET_INFO[resolved[i].preset].response_delay
        /\ \A j \in 1..Len(resolved) :
              Skeleton(resolved[i].returned) = Skeleton(resolved[j].returned)

C23_Witness ==
    \E i \in 1..Len(resolved), j \in 1..Len(resolved) :
        /\ resolved[i].preset = "conservative"
        /\ resolved[j].preset = "autonomous_agent"
        /\ resolved[i].returned # resolved[j].returned

\* C25: the snapshot of get_all_windows_status holds every session of the
\* server and every window of each, a window carrying an error exactly when
\* its details could not be read.
C25_NothingOmitted ==
    (windows_status.returned /\ tmux.running) =>
        \A n \in 1..Len(tmux.sessions) :
            \E k \in 1..Len(windows_status.sessions) :
                /\ windows_status.sessions[k].name = tmux.sessions[n].name
                /\ \A w \in 1..Len(tmux.sessions[n].windows) :
                      \E m \in 1..Len(windows_status.sessions[k].windows) :
                          /\ windows_status.sessions[k].windows[m].index
                                = AllWindows[w]
                          /\ tmux.sessions[n].windows[w].readable
                                => ~windows_status.sessions[k].windows[m].error

\* C26: select_strategy returns enterprise exactly for file_count > 100 and
\* score >= 0.7, systematic for score >= 0.7 and file_count <= 100, adaptive
\* for 0.5 <= score < 0.7, progressive for score < 0.5.
C26_StrategyTable ==
    strategy # "None" =>
        /\ strategy \in {"enterprise", "systematic", "adaptive", "progressive"}
        /\ strategy = "enterprise"
              <=> (wave_input.file_count > 100 /\ wave_input.score >= 700)
        /\ strategy = "systematic"
              <=> (wave_input.score >= 700 /\ wave_input.file_count <= 100)
        /\ strategy = "adaptive"
              <=> (500 <= wave_input.score /\ wave_input.score < 700)
        /\ strategy = "progressive" <=> wave_input.score < 500

C26_Witness ==
    /\ strategy = "systematic"
    /\ wave_input.score = 700
    /\ wave_input.file_count = 100

\* C27: score_complexity returns a value within [0.0, 1.0] for all inputs,
\* negative and large ones included.
C27_ScoreInUnitRange ==
    score.done => (0 <= score.value /\ score.value <= 1000)

C27_Witness ==
    /\ score.done
    /\ wave_input.complexity < 0
    /\ wave_input.file_count > 100
    /\ wave_input.flags < 0
    /\ score.value > 0

\* the keystroke calls already made to the window thread t is looking at
AnswersTo(t) ==
    {i \in 1..Len(send_keys) :
        /\ send_keys[i].session = session[t]
        /\ send_keys[i].window = windows[t][idx[t]]
        /\ send_keys[i].keys # "Enter"}

\* the pane texts the current policy answers
Answerable ==
    {text \in PaneTexts :
        check_for_confirmation_prompt(text, config).prompt_info # None}

\* C28: the monitor keeps no memory of the prompts it has answered: a window
\* that was answered before and whose captured text matches an enabled
\* category is taken to the send again on that tick, and the send makes
\* another keystroke call.
C28_AnsweredWindowAnsweredAgain ==
    \A t \in Threads :
        /\ (/\ pc[t] = "check"
            /\ AnswersTo(t) # {}
            /\ Answerable # {}
            /\ prompts < MaxPrompts)
           => ENABLED (Check(t) /\ pc'[t] = "send")
        /\ (pc[t] = "send" /\ AnswersTo(t) # {})
           => ENABLED (SendResponse(t) /\ Len(send_keys') > Len(send_keys))

\* one loop has answered the same window on two ticks
C28_Witness ==
    /\ nthreads = 1
    /\ pc[1] = "approved"
    /\ Cardinality(AnswersTo(1)) = 2

\* C30: with an unknown preset and a missing or unparsable config file the
\* policy is the built-in default, disabled and without categories:
\* start_for_session refuses, and after enable() no loop sends a keystroke.
C30_DefaultPolicyNeverSends ==
    preset = "unknown" =>
        /\ \A doc \in {MissingFile, UnparsableFile} :
              load_config(preset, doc) = get_default_config
        /\ DOMAIN config.granular_controls = {}
        /\ send_keys = << >>
        /\ commands = 0 =>
              (~config.enabled /\ nthreads = 0 /\ returned \in {"None", "False"})

\* an enabled default policy has looked at a window showing text and gone on
C30_Witness ==
    /\ preset = "unknown"
    /\ config.enabled
    /\ \E t \in Threads : pc[t] = "for" /\ idx[t] > 1 /\ prompts > 0
====
